---- MODULE Spec2Model ----
(***************************************************************************)
(* MindMint: the journal application state (AppProvider), its two stores   *)
(* (DatabaseService over SQLite, PostgreSQLService) and the NFT mint flow  *)
(* (solanaService, walletService, MintNFTScreen.performMint).              *)
(*                                                                         *)
(* Every store call may throw (database not initialised, connection lost): *)
(* the outcome of each call is an input of the action that makes it.       *)
(* Handlers are atomic between the awaits that matter for the properties:  *)
(* the mint suspends while the chain call is in flight.                    *)
(*                                                                         *)
(* Spec is the whole machine.  EntrySpec is its part within one calendar   *)
(* day with the user-row writes returning, for the properties of entries   *)
(* and of the mint flow; both values of POSTGRESQL_ENABLED are initial.    *)
(***************************************************************************)
EXTENDS Integers, Sequences, FiniteSets, TLC

\* ---------------------------------------------------------------- bounds
MaxIds == 2        \* ids ever generated by the two stores
MaxDay == 1        \* calendar days the clock may advance
MaxTokens == 2     \* mint addresses the chain allocates
MaxUploads == 2    \* metadata documents the metadata store accepts
MaxUsers == 2      \* user rows ever created by the two stores
MaxCopies == 1     \* further ids, generated for the copies syncToCloud inserts
MaxLen == 3        \* entries in a list passed to calculateStreak
MaxSpan == 3       \* calendar days between the oldest entry of such a list and today
MaxStreak == 31    \* largest currentStreak passed to calculateClarityPoints

\* ------------------------------------------------------- program constants
DAILY_ENTRY == 10
MOOD_TRACKING == 5
NFT_MINTING == 20
STREAK_3_DAYS == 15
STREAK_7_DAYS == 50
STREAK_30_DAYS == 200
MIN_CONTENT_LENGTH == 10        \* validateJournalEntry: shortest trimmed content
MAX_CONTENT_LENGTH == 5000      \* validateJournalEntry: longest content

Procs == {1, 2}                 \* MintNFTScreen instances calling mintEntryAsNFT
Ids == 1..MaxIds
AllIds == 1..(MaxIds + MaxCopies)
Sweepers == {1, 2}              \* components calling useApp().syncToCloud
None == <<>>                    \* an optional value that is undefined / SQL NULL
Some(v) == <<v>>                \* an optional value that is set
USER_ID == "u1"                 \* id of the user created at the first launch
UserIdNames == <<"u1", "u2", "u3">>   \* the ids createUser generates, in order
WALLET == "wallet1"             \* public key of the connected keypair
CreateContents == {"c1"}        \* content typed into a new entry
EditContents == {"c2"}          \* content typed into an edit
CreateMoods == {"happy"}
EditMoods == {"sad"}
\* MoodType
MoodType == {"happy", "sad", "calm", "anxious", "excited", "tired", "grateful", "angry"}

VARIABLES
  pgEnabled,        \* CONFIG.DATABASE.POSTGRESQL_ENABLED
  today,            \* calendar day of new Date()
  nextId,           \* next id Date.now()+random yields
  sqlite,           \* rows of SQLite journal_entries
  pg,               \* rows of PostgreSQL journal_entries
  sqliteUsers,      \* rows of SQLite users
  pgUsers,          \* rows of PostgreSQL users
  entries,          \* state.entries
  user,             \* state.user
  walletSvc,        \* walletService.isConnected()
  walletConnected,  \* state.walletConnected
  chain,            \* tokens created on the chain: the entry each was minted for
  uploads,          \* number of metadata uploads made
  pc,               \* per caller: "idle" or "chain" (awaiting solanaService)
  minting,          \* per caller: MintNFTScreen's minting flag
  snap,             \* per caller: the entry captured by the call in flight
  ret,              \* what the last completed call reported to its caller
  sweep,            \* per sweeper: the unsynced entries its syncToCloud has still to submit
  pendingSync       \* state.syncStatus.pendingSync

vars == <<pgEnabled, today, nextId, sqlite, pg, sqliteUsers, pgUsers, entries, user,
          walletSvc, walletConnected, chain, uploads, pc, minting, snap, ret, sweep,
          pendingSync>>

storeVars == <<sqlite, pg, sqliteUsers, pgUsers>>
mintVars == <<chain, uploads, pc, minting, snap>>
walletVars == <<walletSvc, walletConnected>>

\* ------------------------------------------------------------ sequences
RECURSIVE SeqSum(_)
SeqSum(s) == IF s = <<>> THEN 0 ELSE Head(s).clarityPoints + SeqSum(Tail(s))

SeqIds(s) == {s[i].id : i \in 1..Len(s)}
\* entries.find(e => e.id === id), for an id that is present
Find(s, id) == s[CHOOSE i \in 1..Len(s) : s[i].id = id /\ \A j \in 1..(i-1) : s[j].id # id]

\* ORDER BY created_at DESC: created_at is the insertion instant, and ids are
\* generated from the same clock, so the newest row is the one with the largest id.
RECURSIVE OrderByCreatedAtDesc(_)
OrderByCreatedAtDesc(rows) ==
  IF rows = {} THEN <<>>
  ELSE LET m == CHOOSE r \in rows : \A q \in rows : q.id <= r.id
       IN <<m>> \o OrderByCreatedAtDesc(rows \ {m})

\* ------------------------------------------------------------ LedgerEngine
\* the thresholds compared with > instead of >=
calculateClarityPoints_strictThresholds(isMinted, currentStreak, isMoodTracked) ==
  LET dailyEntry == DAILY_ENTRY
      moodTracking == IF isMoodTracked THEN MOOD_TRACKING ELSE 0
      nftMinting == IF isMinted THEN NFT_MINTING ELSE 0
      streakBonus == IF currentStreak > 30 THEN STREAK_30_DAYS
                     ELSE IF currentStreak > 7 THEN STREAK_7_DAYS
                     ELSE IF currentStreak > 3 THEN STREAK_3_DAYS
                     ELSE 0
  IN [dailyEntry |-> dailyEntry, moodTracking |-> moodTracking, nftMinting |-> nftMinting,
      streakBonus |-> streakBonus, total |-> dailyEntry + moodTracking + nftMinting + streakBonus]

calculateClarityPoints(isMinted, currentStreak, isMoodTracked) ==
  LET dailyEntry == DAILY_ENTRY
      moodTracking == IF isMoodTracked THEN MOOD_TRACKING ELSE 0
      nftMinting == IF isMinted THEN NFT_MINTING ELSE 0
      streakBonus == IF currentStreak >= 30 THEN STREAK_30_DAYS
                     ELSE IF currentStreak >= 7 THEN STREAK_7_DAYS
                     ELSE IF currentStreak >= 3 THEN STREAK_3_DAYS
                     ELSE 0
  IN [dailyEntry |-> dailyEntry, moodTracking |-> moodTracking, nftMinting |-> nftMinting,
      streakBonus |-> streakBonus, total |-> dailyEntry + moodTracking + nftMinting + streakBonus]

\* createdAt and now are calendar days (local midnights, 24 hours apart):
\* calculateStreak truncates both to the start of their day before it subtracts.
\* entries.sort((a, b) => b.createdAt - a.createdAt): stable, newest first
RECURSIVE InsertByDate(_, _)
InsertByDate(e, s) ==
  IF s = <<>> THEN <<e>>
  ELSE IF Head(s).createdAt >= e.createdAt THEN <<Head(s)>> \o InsertByDate(e, Tail(s))
       ELSE <<e>> \o s

\* no sort at all: the list as it was passed
SortByDateDesc_asGiven(s) == s

RECURSIVE SortByDateDesc(_)
SortByDateDesc(s) ==
  IF s = <<>> THEN <<>>
  ELSE LET rest == SortByDateDesc(SubSeq(s, 1, Len(s) - 1))
       IN InsertByDate(s[Len(s)], rest)

\* the loop counting every entry of a day already counted
RECURSIVE StreakLoop_countsEveryEntry(_, _, _, _)
StreakLoop_countsEveryEntry(sorted, i, streak, now) ==
  IF i > Len(sorted) THEN streak
  ELSE LET daysDiff == now - sorted[i].createdAt
       IN IF daysDiff <= streak THEN StreakLoop_countsEveryEntry(sorted, i + 1, streak + 1, now)
          ELSE streak

RECURSIVE StreakLoop(_, _, _, _)
StreakLoop(sorted, i, streak, now) ==
  IF i > Len(sorted) THEN streak
  ELSE LET daysDiff == now - sorted[i].createdAt
       IN IF daysDiff = streak THEN StreakLoop(sorted, i + 1, streak + 1, now)
          ELSE IF daysDiff > streak THEN streak
          ELSE StreakLoop(sorted, i + 1, streak, now)

\* the early return for an empty list returning 1
calculateStreak_emptyIsOne(es, now) ==
  IF Len(es) = 0 THEN 1 ELSE StreakLoop(SortByDateDesc(es), 1, 0, now)

calculateStreak(es, now) ==
  IF Len(es) = 0 THEN 0 ELSE StreakLoop(SortByDateDesc(es), 1, 0, now)

\* --------------------------------------------------- Partial<> updates
\* A key of an update object is Absent or Key(v); an optional field's v is
\* itself None or Some(x), so { walletAddress: undefined } is Key(None).
Absent == <<>>
Key(v) == <<v>>
Present(f) == f # Absent
Defined(f) == Present(f)                          \* updates.x !== undefined, x never undefined
DefinedOpt(f) == Present(f) /\ f[1] # None        \* updates.x !== undefined, x optional
Merge(old, f) == IF Present(f) THEN f[1] ELSE old \* { ...old, ...updates }

NoEntryUpdates ==
  [content |-> Absent, mood |-> Absent, isMinted |-> Absent, nftAddress |-> Absent,
   nftTransactionSignature |-> Absent, nftMetadataUri |-> Absent,
   clarityPoints |-> Absent, isSync |-> Absent]

NoUserUpdates ==
  [walletAddress |-> Absent, totalClarityPoints |-> Absent, currentStreak |-> Absent,
   longestStreak |-> Absent, lastEntryDate |-> Absent]

\* ------------------------------------------------ DatabaseService (SQLite)
\* INSERT INTO journal_entries: booleans are stored as integers.
DatabaseService_insertEntry(rows, id, now, entryData) ==
  rows \cup {[id |-> id, user_id |-> entryData.userId, content |-> entryData.content,
              mood |-> entryData.mood, created_at |-> now,
              is_minted |-> IF entryData.isMinted THEN 1 ELSE 0,
              nft_address |-> entryData.nftAddress,
              clarity_points |-> entryData.clarityPoints,
              is_sync |-> IF entryData.isSync THEN 1 ELSE 0]}

\* is_minted compared with true instead of 1: never equal for an integer column
DatabaseService_dbEntryToEntry_strictBool(r) ==
  [id |-> r.id, userId |-> r.user_id, content |-> r.content, mood |-> r.mood,
   createdAt |-> r.created_at, isMinted |-> FALSE,
   nftAddress |-> r.nft_address,
   clarityPoints |-> r.clarity_points, isSync |-> (r.is_sync = 1),
   nftTransactionSignature |-> None, nftMetadataUri |-> None]

DatabaseService_dbEntryToEntry(r) ==
  [id |-> r.id, userId |-> r.user_id, content |-> r.content, mood |-> r.mood,
   createdAt |-> r.created_at, isMinted |-> (r.is_minted = 1),
   nftAddress |-> r.nft_address,
   clarityPoints |-> r.clarity_points, isSync |-> (r.is_sync = 1),
   nftTransactionSignature |-> None, nftMetadataUri |-> None]

DatabaseService_getJournalEntries(rows) ==
  LET sorted == OrderByCreatedAtDesc(rows)
  IN [i \in 1..Len(sorted) |-> DatabaseService_dbEntryToEntry(sorted[i])]

\* the UPDATE without its nft_address column
DatabaseService_updateJournalEntry_noAddress(rows, id, u) ==
  {IF r.id # id THEN r
   ELSE [r EXCEPT !.content = IF Defined(u.content) THEN u.content[1] ELSE @,
                  !.mood = IF Defined(u.mood) THEN u.mood[1] ELSE @,
                  !.is_minted = IF Defined(u.isMinted) THEN (IF u.isMinted[1] THEN 1 ELSE 0) ELSE @,
                  !.clarity_points = IF Defined(u.clarityPoints) THEN u.clarityPoints[1] ELSE @,
                  !.is_sync = IF Defined(u.isSync) THEN (IF u.isSync[1] THEN 1 ELSE 0) ELSE @]
   : r \in rows}

DatabaseService_updateJournalEntry(rows, id, u) ==
  {IF r.id # id THEN r
   ELSE [r EXCEPT !.content = IF Defined(u.content) THEN u.content[1] ELSE @,
                  !.mood = IF Defined(u.mood) THEN u.mood[1] ELSE @,
                  !.is_minted = IF Defined(u.isMinted) THEN (IF u.isMinted[1] THEN 1 ELSE 0) ELSE @,
                  !.nft_address = IF DefinedOpt(u.nftAddress) THEN u.nftAddress[1] ELSE @,
                  !.clarity_points = IF Defined(u.clarityPoints) THEN u.clarityPoints[1] ELSE @,
                  !.is_sync = IF Defined(u.isSync) THEN (IF u.isSync[1] THEN 1 ELSE 0) ELSE @]
   : r \in rows}

DatabaseService_deleteJournalEntry(rows, id) == {r \in rows : r.id # id}

DatabaseService_dbUserToUser(r) ==
  [id |-> r.id, walletAddress |-> r.wallet_address,
   totalClarityPoints |-> r.total_clarity_points, currentStreak |-> r.current_streak,
   longestStreak |-> r.longest_streak, lastEntryDate |-> r.last_entry_date]

DatabaseService_updateUser(rows, id, u) ==
  {IF r.id # id THEN r
   ELSE [r EXCEPT !.wallet_address = IF DefinedOpt(u.walletAddress) THEN u.walletAddress[1] ELSE @,
                  !.total_clarity_points = IF Defined(u.totalClarityPoints) THEN u.totalClarityPoints[1] ELSE @,
                  !.current_streak = IF Defined(u.currentStreak) THEN u.currentStreak[1] ELSE @,
                  !.longest_streak = IF Defined(u.longestStreak) THEN u.longestStreak[1] ELSE @,
                  !.last_entry_date = IF DefinedOpt(u.lastEntryDate) THEN u.lastEntryDate[1] ELSE @]
   : r \in rows}

\* ------------------------------------------------------ PostgreSQLService
\* INSERT INTO journal_entries: the row id is the freshly generated one, also
\* when entryData carries an id of its own; created_at is the insertion time.
PostgreSQLService_insertEntry(rows, id, now, entryData) ==
  rows \cup {[id |-> id, user_id |-> entryData.userId, content |-> entryData.content,
              mood |-> entryData.mood, created_at |-> now,
              is_minted |-> entryData.isMinted,
              nft_address |-> entryData.nftAddress,
              clarity_points |-> entryData.clarityPoints,
              is_sync |-> entryData.isSync]}

PostgreSQLService_dbEntryToEntry(r) ==
  [id |-> r.id, userId |-> r.user_id, content |-> r.content, mood |-> r.mood,
   createdAt |-> r.created_at, isMinted |-> r.is_minted, nftAddress |-> r.nft_address,
   clarityPoints |-> r.clarity_points, isSync |-> r.is_sync,
   nftTransactionSignature |-> None, nftMetadataUri |-> None]

PostgreSQLService_getJournalEntries(rows) ==
  LET sorted == OrderByCreatedAtDesc(rows)
  IN [i \in 1..Len(sorted) |-> PostgreSQLService_dbEntryToEntry(sorted[i])]

PostgreSQLService_updateJournalEntry(rows, id, u) ==
  {IF r.id # id THEN r
   ELSE [r EXCEPT !.content = IF Defined(u.content) THEN u.content[1] ELSE @,
                  !.mood = IF Defined(u.mood) THEN u.mood[1] ELSE @,
                  !.is_minted = IF Defined(u.isMinted) THEN u.isMinted[1] ELSE @,
                  !.nft_address = IF DefinedOpt(u.nftAddress) THEN u.nftAddress[1] ELSE @,
                  !.clarity_points = IF Defined(u.clarityPoints) THEN u.clarityPoints[1] ELSE @,
                  !.is_sync = IF Defined(u.isSync) THEN u.isSync[1] ELSE @]
   : r \in rows}

PostgreSQLService_deleteJournalEntry(rows, id) == {r \in rows : r.id # id}

PostgreSQLService_updateUser(rows, id, u) ==
  {IF r.id # id THEN r
   ELSE [r EXCEPT !.wallet_address = IF DefinedOpt(u.walletAddress) THEN u.walletAddress[1] ELSE @,
                  !.total_clarity_points = IF Defined(u.totalClarityPoints) THEN u.totalClarityPoints[1] ELSE @,
                  !.current_streak = IF Defined(u.currentStreak) THEN u.currentStreak[1] ELSE @,
                  !.longest_streak = IF Defined(u.longestStreak) THEN u.longestStreak[1] ELSE @,
                  !.last_entry_date = IF DefinedOpt(u.lastEntryDate) THEN u.lastEntryDate[1] ELSE @]
   : r \in rows}

\* ------------------------------------------------------------ store reads
\* WHERE user_id = ?
RowsOf(rows, userId) == {r \in rows : r.user_id = userId}

\* SELECT * FROM users WHERE id = ?: the user, or null
DatabaseService_getUser(rows, id) ==
  IF \E r \in rows : r.id = id
  THEN Some(DatabaseService_dbUserToUser(CHOOSE r \in rows : r.id = id))
  ELSE None

PostgreSQLService_dbUserToUser(r) ==
  [id |-> r.id, walletAddress |-> r.wallet_address,
   totalClarityPoints |-> r.total_clarity_points, currentStreak |-> r.current_streak,
   longestStreak |-> r.longest_streak, lastEntryDate |-> r.last_entry_date]

PostgreSQLService_getUser(rows, id) ==
  IF \E r \in rows : r.id = id
  THEN Some(PostgreSQLService_dbUserToUser(CHOOSE r \in rows : r.id = id))
  ELSE None

\* ------------------------------------------------------------- appReducer
\* the updates merged into every entry, whatever its id
UPDATE_ENTRY_everyEntry(es, id, u) ==
  [i \in 1..Len(es) |->
     [es[i] EXCEPT !.content = Merge(@, u.content), !.mood = Merge(@, u.mood),
                   !.isMinted = Merge(@, u.isMinted), !.nftAddress = Merge(@, u.nftAddress),
                   !.nftTransactionSignature = Merge(@, u.nftTransactionSignature),
                   !.nftMetadataUri = Merge(@, u.nftMetadataUri),
                   !.clarityPoints = Merge(@, u.clarityPoints), !.isSync = Merge(@, u.isSync)]]

\* UPDATE_ENTRY: { ...entry, ...updates } for the entry with that id
UPDATE_ENTRY(es, id, u) ==
  [i \in 1..Len(es) |->
     IF es[i].id # id THEN es[i]
     ELSE [es[i] EXCEPT !.content = Merge(@, u.content), !.mood = Merge(@, u.mood),
                        !.isMinted = Merge(@, u.isMinted), !.nftAddress = Merge(@, u.nftAddress),
                        !.nftTransactionSignature = Merge(@, u.nftTransactionSignature),
                        !.nftMetadataUri = Merge(@, u.nftMetadataUri),
                        !.clarityPoints = Merge(@, u.clarityPoints), !.isSync = Merge(@, u.isSync)]]

DELETE_ENTRY(es, id) == SelectSeq(es, LAMBDA e : e.id # id)

UPDATE_USER(usr, u) ==
  [usr EXCEPT !.walletAddress = Merge(@, u.walletAddress),
              !.totalClarityPoints = Merge(@, u.totalClarityPoints),
              !.currentStreak = Merge(@, u.currentStreak),
              !.longestStreak = Merge(@, u.longestStreak),
              !.lastEntryDate = Merge(@, u.lastEntryDate)]

\* the maximum that keeps its first argument
Max_keepsFirst(a, b) == a

Max(a, b) == IF a >= b THEN a ELSE b

\* ------------------------------------------------------------------ Init
NoSnap == [id |-> 0, clarityPoints |-> 0, metadataUri |-> 0]
\* What a call reported to its caller: the promise's resolution ("ok" and the
\* value it carries, or the error it rejected with).
Ret(op, id, result, value) == [op |-> op, id |-> id, result |-> result, value |-> value]
NoRet == Ret("void", 0, "ok", 0)       \* a promise that resolved without a value

NewUserRow == [id |-> USER_ID, wallet_address |-> None, total_clarity_points |-> 0,
               current_streak |-> 0, longest_streak |-> 0, last_entry_date |-> None]

\* The state once initializeApp has run on a first launch: getOrCreateUser
\* created the user in PostgreSQL when that is enabled and answered, in SQLite
\* otherwise; there are no entries yet.
Init ==
  /\ pgEnabled \in BOOLEAN
  /\ today = 0
  /\ nextId = 1
  /\ sqlite = {}
  /\ pg = {}
  /\ \E inPg \in BOOLEAN :
       /\ inPg => pgEnabled
       /\ pgUsers = IF inPg THEN {NewUserRow} ELSE {}
       /\ sqliteUsers = IF inPg THEN {} ELSE {NewUserRow}
  /\ entries = <<>>
  /\ user = DatabaseService_dbUserToUser(NewUserRow)
  /\ walletSvc = FALSE
  /\ walletConnected = FALSE
  /\ chain = <<>>
  /\ uploads = 0
  /\ pc = [p \in Procs |-> "idle"]
  /\ minting = [p \in Procs |-> FALSE]
  /\ snap = [p \in Procs |-> NoSnap]
  /\ ret = NoRet
  /\ sweep = [p \in Sweepers |-> <<>>]
  /\ pendingSync = 0

\* --------------------------------------------------------------- the clock
Tick ==
  /\ today < MaxDay
  /\ today' = today + 1
  /\ UNCHANGED <<pgEnabled, pendingSync, nextId, storeVars, entries, user, walletVars, mintVars, ret, sweep>>

\* ------------------------------------------------------------- AppProvider
\* updateUserStats(u, es): one try block around both store writes, then the
\* dispatch.  pgOk, sqOk: whether the PostgreSQL / SQLite call returns.
\* pgRows, sqRows, stateUser: the user tables and state.user when it is called.
updateUserStatsOn(u, es, pgOk, sqOk, pgRows, sqRows, stateUser) ==
  LET currentStreak == calculateStreak(es, today)
      sorted == SortByDateDesc(es)
      updates == [NoUserUpdates EXCEPT
                    !.currentStreak = Key(currentStreak),
                    !.totalClarityPoints = Key(SeqSum(es)),
                    !.longestStreak = Key(Max(u.longestStreak, currentStreak)),
                    !.lastEntryDate = Key(IF Len(es) > 0 THEN Some(sorted[1].createdAt) ELSE None)]
      pgPassed == pgEnabled => pgOk
  IN /\ pgUsers' = IF pgEnabled /\ pgOk
                   THEN PostgreSQLService_updateUser(pgRows, u.id, updates) ELSE pgRows
     /\ sqliteUsers' = IF pgPassed /\ sqOk
                       THEN DatabaseService_updateUser(sqRows, u.id, updates) ELSE sqRows
     /\ user' = UPDATE_USER(stateUser, updates)

updateUserStats(u, es, pgOk, sqOk) ==
  updateUserStatsOn(u, es, pgOk, sqOk, pgUsers, sqliteUsers, user)

createEntry(content, mood, pgOk, sqOk, pgOk2, sqOk2) ==
  /\ nextId <= MaxIds
  /\ LET pointsBreakdown == calculateClarityPoints(FALSE, user.currentStreak, TRUE)
         entryData == [userId |-> user.id, content |-> content, mood |-> mood, isMinted |-> FALSE,
                       nftAddress |-> None, clarityPoints |-> pointsBreakdown.total, isSync |-> FALSE]
         entry == [id |-> nextId, userId |-> user.id, content |-> content, mood |-> mood,
                   createdAt |-> today, isMinted |-> FALSE, nftAddress |-> None,
                   clarityPoints |-> pointsBreakdown.total, isSync |-> FALSE,
                   nftTransactionSignature |-> None, nftMetadataUri |-> None]
         inPg == pgEnabled /\ pgOk
     IN IF inPg \/ sqOk
        THEN /\ pg' = IF inPg THEN PostgreSQLService_insertEntry(pg, nextId, today, entryData) ELSE pg
             /\ sqlite' = IF inPg THEN sqlite ELSE DatabaseService_insertEntry(sqlite, nextId, today, entryData)
             /\ nextId' = nextId + 1
             /\ entries' = <<entry>> \o entries
             /\ updateUserStats(user, <<entry>> \o entries, pgOk2, sqOk2)
             /\ ret' = Ret("createEntry", nextId, "ok", 0)
        ELSE /\ ret' = Ret("createEntry", 0, "error", 0)
             /\ UNCHANGED <<pg, sqlite, nextId, entries, pgUsers, sqliteUsers, user>>
  /\ UNCHANGED <<pgEnabled, pendingSync, today, walletVars, mintVars, sweep>>

\* updateEntry(id, updates): both store writes and the dispatch are inside one
\* try block whose catch records the error and returns normally.
updateEntryBody(id, updates, pgOk, sqOk) ==
  LET pgPassed == pgEnabled => pgOk
  IN /\ pg' = IF pgEnabled /\ pgOk THEN PostgreSQLService_updateJournalEntry(pg, id, updates) ELSE pg
     /\ sqlite' = IF pgPassed /\ sqOk THEN DatabaseService_updateJournalEntry(sqlite, id, updates) ELSE sqlite
     /\ entries' = IF pgPassed /\ sqOk THEN UPDATE_ENTRY(entries, id, updates) ELSE entries

updateEntry(id, content, mood, pgOk, sqOk) ==
  /\ id \in SeqIds(entries)
  /\ updateEntryBody(id, [NoEntryUpdates EXCEPT !.content = Key(content), !.mood = Key(mood)], pgOk, sqOk)
  /\ ret' = NoRet
  /\ UNCHANGED <<pgEnabled, pendingSync, today, nextId, pgUsers, sqliteUsers, user, walletVars, mintVars, sweep>>

deleteEntry(id, pgOk, sqOk) ==
  /\ id \in SeqIds(entries)
  /\ LET pgPassed == pgEnabled => pgOk
     IN /\ pg' = IF pgEnabled /\ pgOk THEN PostgreSQLService_deleteJournalEntry(pg, id) ELSE pg
        /\ sqlite' = IF pgPassed /\ sqOk THEN DatabaseService_deleteJournalEntry(sqlite, id) ELSE sqlite
        /\ entries' = IF pgPassed /\ sqOk THEN DELETE_ENTRY(entries, id) ELSE entries
  /\ ret' = NoRet
  /\ UNCHANGED <<pgEnabled, pendingSync, today, nextId, pgUsers, sqliteUsers, user, walletVars, mintVars, sweep>>

\* checkOnlineStatus: the number of entries of state.entries, as the caller's
\* render captured it, that are not flagged as synced
checkOnlineStatus_pendingSync(es) == Len(SelectSeq(es, LAMBDA e : ~e.isSync))

\* checkOnlineStatus called on its own
checkOnlineStatus ==
  /\ pendingSync' = checkOnlineStatus_pendingSync(entries)
  /\ ret' = NoRet
  /\ UNCHANGED <<pgEnabled, today, nextId, storeVars, entries, user, walletVars, mintVars, sweep>>

\* the read that asks SQLite only
loadJournalEntries_localOnly(userId, pgReadOk) ==
  DatabaseService_getJournalEntries(RowsOf(sqlite, userId))

\* loadJournalEntries: PostgreSQL's answer when enabled and it returns,
\* SQLite's otherwise.
loadJournalEntries(userId, pgReadOk) ==
  IF pgEnabled /\ pgReadOk THEN PostgreSQLService_getJournalEntries(RowsOf(pg, userId))
  ELSE DatabaseService_getJournalEntries(RowsOf(sqlite, userId))

\* refreshData replaces state.entries by what loadJournalEntries returns,
\* recomputes the user's stats and calls checkOnlineStatus, whose state.entries
\* is the list of the render that created refreshData: the one before the
\* load.  A throwing SQLite read lands in its catch.
refreshData(pgReadOk, sqReadOk, pgOk2, sqOk2) ==
  /\ ret' = NoRet
  /\ UNCHANGED <<pgEnabled, today, nextId, pg, sqlite, walletVars, mintVars, sweep>>
  /\ LET fromPg == pgEnabled /\ pgReadOk
         loaded == loadJournalEntries(user.id, pgReadOk)
     IN IF fromPg \/ sqReadOk
        THEN /\ entries' = loaded
             /\ updateUserStats(user, loaded, pgOk2, sqOk2)
             /\ pendingSync' = checkOnlineStatus_pendingSync(entries)
        ELSE /\ UNCHANGED <<entries, pgUsers, sqliteUsers, user, pendingSync>>

\* getOrCreateUser's lookup of the stored user id: PostgreSQL's user when it is
\* enabled, answers and has that user; SQLite's answer (null: no such user)
\* in every other case.
getOrCreateUser_lookup(storedUserId, pgOk) ==
  LET existingUser == IF pgEnabled /\ pgOk
                      THEN PostgreSQLService_getUser(pgUsers, storedUserId) ELSE None
  IN IF existingUser # None THEN existingUser
     ELSE DatabaseService_getUser(sqliteUsers, storedUserId)

UserRow(id) == [NewUserRow EXCEPT !.id = id]
UsersCreated == Cardinality({r.id : r \in sqliteUsers \cup pgUsers})

\* The token creations in flight when the process is killed: each has reached
\* the chain or not.
RECURSIVE Landed(_, _)
Landed(tokens, ps) ==
  IF ps = {} THEN tokens
  ELSE LET p == CHOOSE q \in ps : \A r \in ps : q <= r
       IN Landed(Append(tokens, snap[p].id), ps \ {p})

\* initializeApp on a later launch: the process starts with the initial state
\* (no entries, no wallet session, no call in flight); the stored user id is
\* the id of the user of the previous run.  getOrCreateUser looks it up and
\* creates a new user when no store returns one (in PostgreSQL when that is
\* enabled and answers, pgCreateOk, in SQLite otherwise); then the entries of
\* that user are loaded and the stats recomputed.  When the SQLite read of the
\* entries throws, the catch leaves the user set and the entries empty.
initializeApp(pgUserOk, pgCreateOk, pgReadOk, sqReadOk, pgOk2, sqOk2, landed) ==
  LET storedUserId == user.id
      existingUser == getOrCreateUser_lookup(storedUserId, pgUserOk)
      creating == existingUser = None
      newRow == UserRow(UserIdNames[UsersCreated + 1])
      createdInPg == creating /\ pgEnabled /\ pgCreateOk
      pgRows == IF createdInPg THEN pgUsers \cup {newRow} ELSE pgUsers
      sqRows == IF creating /\ ~createdInPg THEN sqliteUsers \cup {newRow} ELSE sqliteUsers
      u == IF creating THEN DatabaseService_dbUserToUser(newRow) ELSE existingUser[1]
      loaded == loadJournalEntries(u.id, pgReadOk)
  IN /\ landed \subseteq {p \in Procs : pc[p] = "chain"}
     /\ Len(chain) + Cardinality(landed) <= MaxTokens
     /\ walletSvc' = FALSE
     /\ walletConnected' = FALSE
     /\ ret' = NoRet
     /\ UNCHANGED <<pgEnabled, today, nextId, pg, sqlite, uploads>>
     /\ pendingSync' = 0
     /\ chain' = Landed(chain, landed)
     /\ pc' = [p \in Procs |-> "idle"]
     /\ minting' = [p \in Procs |-> FALSE]
     /\ snap' = [p \in Procs |-> NoSnap]
     /\ sweep' = [p \in Sweepers |-> <<>>]
     /\ creating => UsersCreated < MaxUsers
     /\ IF (pgEnabled /\ pgReadOk) \/ sqReadOk
        THEN /\ entries' = loaded
             /\ updateUserStatsOn(u, loaded, pgOk2, sqOk2, pgRows, sqRows, u)
        ELSE /\ entries' = <<>>
             /\ pgUsers' = pgRows
             /\ sqliteUsers' = sqRows
             /\ user' = u

\* syncToCloud: for each entry of state.entries that is not marked synced, in
\* order: insert a copy into PostgreSQL (under a fresh id), then mark the SQLite
\* row synced; a throw of either call is caught per entry.  pgOks, sqOks: the
\* entries whose PostgreSQL / SQLite call returns.  Nothing is dispatched, and
\* the call resolves whatever happened.
RECURSIVE SyncLoop(_, _, _, _, _, _)
SyncLoop(es, acc, pgOks, sqOks, i, now) ==
  IF i > Len(es) THEN acc
  ELSE LET e == es[i]
       IN IF e.isSync THEN SyncLoop(es, acc, pgOks, sqOks, i + 1, now)
          ELSE IF e.id \notin pgOks THEN SyncLoop(es, acc, pgOks, sqOks, i + 1, now)
          ELSE LET inserted == PostgreSQLService_insertEntry(acc.pg, acc.nextId, now,
                                                             [e EXCEPT !.isSync = TRUE])
                   marked == IF e.id \in sqOks
                             THEN DatabaseService_updateJournalEntry(
                                    acc.sqlite, e.id, [NoEntryUpdates EXCEPT !.isSync = Key(TRUE)])
                             ELSE acc.sqlite
               IN SyncLoop(es, [pg |-> inserted, sqlite |-> marked, nextId |-> acc.nextId + 1],
                           pgOks, sqOks, i + 1, now)

syncToCloud(pgOks, sqOks) ==
  /\ IF pgEnabled
     THEN LET done == SyncLoop(entries, [pg |-> pg, sqlite |-> sqlite, nextId |-> nextId],
                               pgOks, sqOks, 1, today)
          IN /\ done.nextId <= MaxIds + MaxCopies + 1
             /\ pg' = done.pg
             /\ sqlite' = done.sqlite
             /\ nextId' = done.nextId
     ELSE UNCHANGED <<pg, sqlite, nextId>>     \* 'Cloud sync not available'
  /\ ret' = NoRet
  /\ UNCHANGED <<pgEnabled, pendingSync, today, entries, pgUsers, sqliteUsers, user, walletVars, mintVars, sweep>>

\* The same handler step by step, for sweeps that overlap: the call filters
\* state.entries once, then awaits the two store calls of one entry after the
\* other, so that other handlers (another sweep among them) run in between.
\* With nothing to submit, or PostgreSQL disabled, it returns at once.
syncToCloud_start(p) ==
  /\ sweep[p] = <<>>
  /\ sweep' = [sweep EXCEPT ![p] = IF pgEnabled
                                   THEN SelectSeq(entries, LAMBDA e : ~e.isSync) ELSE <<>>]
  /\ ret' = NoRet
  /\ UNCHANGED <<pgEnabled, pendingSync, today, nextId, storeVars, entries, user, walletVars, mintVars>>

\* one iteration of the loop: pgOk, sqOk: whether the PostgreSQL insert / the
\* SQLite update of this entry returns
syncToCloud_step(p, pgOk, sqOk) ==
  /\ sweep[p] # <<>>
  /\ LET e == Head(sweep[p])
         done == SyncLoop(<<e>>, [pg |-> pg, sqlite |-> sqlite, nextId |-> nextId],
                          IF pgOk THEN {e.id} ELSE {}, IF pgOk /\ sqOk THEN {e.id} ELSE {}, 1, today)
     IN /\ done.nextId <= MaxIds + MaxCopies + 1
        /\ pg' = done.pg
        /\ sqlite' = done.sqlite
        /\ nextId' = done.nextId
  /\ sweep' = [sweep EXCEPT ![p] = Tail(@)]
  /\ ret' = NoRet
  /\ UNCHANGED <<pgEnabled, pendingSync, today, entries, pgUsers, sqliteUsers, user, walletVars, mintVars>>

\* ------------------------------------------------------------------ wallet
\* connectWallet: walletService.connectWallet rejects when the user cancels.
\* On success the onWalletChange listener runs first (SET_WALLET_CONNECTED and
\* updateUserWallet, outcomes pgOkL/sqOkL), then connectWallet's own writes.
connectWallet(ok, pgOkL, sqOkL, pgOk, sqOk) ==
  LET updates == [NoUserUpdates EXCEPT !.walletAddress = Key(Some(WALLET))]
      listenerPg == pgEnabled /\ pgOkL
      listenerAll == (pgEnabled => pgOkL) /\ sqOkL
      ownPg == pgEnabled /\ pgOk
      ownAll == (pgEnabled => pgOk) /\ sqOk
  IN /\ IF ok
        THEN /\ walletSvc' = TRUE
             /\ walletConnected' = TRUE
             /\ pgUsers' = IF listenerPg \/ ownPg
                           THEN PostgreSQLService_updateUser(pgUsers, user.id, updates) ELSE pgUsers
             /\ sqliteUsers' = IF listenerAll \/ ownAll
                               THEN DatabaseService_updateUser(sqliteUsers, user.id, updates) ELSE sqliteUsers
             /\ user' = IF listenerAll \/ ownAll THEN UPDATE_USER(user, updates) ELSE user
        ELSE /\ UNCHANGED <<walletSvc, walletConnected, pgUsers, sqliteUsers, user>>
     /\ ret' = NoRet
     /\ UNCHANGED <<pgEnabled, pendingSync, today, nextId, pg, sqlite, entries, mintVars, sweep>>

\* disconnectWallet: performDisconnect notifies the listener only when a wallet
\* was connected; the store writes carry { walletAddress: undefined }.
disconnectWallet(pgOk, sqOk) ==
  LET updates == [NoUserUpdates EXCEPT !.walletAddress = Key(None)]
      allPassed == (pgEnabled => pgOk) /\ sqOk
  IN /\ walletSvc' = FALSE
     /\ walletConnected' = IF walletSvc \/ allPassed THEN FALSE ELSE walletConnected
     /\ pgUsers' = IF pgEnabled /\ pgOk
                   THEN PostgreSQLService_updateUser(pgUsers, user.id, updates) ELSE pgUsers
     /\ sqliteUsers' = IF allPassed
                       THEN DatabaseService_updateUser(sqliteUsers, user.id, updates) ELSE sqliteUsers
     /\ user' = IF allPassed THEN UPDATE_USER(user, updates) ELSE user
     /\ ret' = NoRet
     /\ UNCHANGED <<pgEnabled, pendingSync, today, nextId, pg, sqlite, entries, mintVars, sweep>>

\* -------------------------------------------------------------------- mint
\* the checks without the one on entry.isMinted
MintPrecondition_noMintedCheck(id) ==
  IF ~walletSvc THEN "WalletNotConnected"
  ELSE IF id \notin SeqIds(entries) THEN "EntryNotFound"
  ELSE "ok"

\* the checks without the one on walletService.isConnected()
MintPrecondition_noWalletCheck(id) ==
  IF id \notin SeqIds(entries) THEN "EntryNotFound"
  ELSE IF Find(entries, id).isMinted THEN "AlreadyMinted"
  ELSE "ok"

\* The checks mintEntryAsNFT makes before its try block, in their order.
MintPrecondition(id) ==
  IF ~walletSvc THEN "WalletNotConnected"
  ELSE IF id \notin SeqIds(entries) THEN "EntryNotFound"
  ELSE IF Find(entries, id).isMinted THEN "AlreadyMinted"
  ELSE "ok"

\* performMint sets its minting flag and calls mintEntryAsNFT(id).  A failed
\* check throws before anything else happens (performMint's finally clears the
\* flag again).  Otherwise solanaService.mintJournalEntryAsNFT builds the
\* metadata, uploads it and submits the token creation: the call is suspended
\* until the chain answers.
mintEntryAsNFT_call(p, id) ==
  /\ pc[p] = "idle"
  /\ LET check == MintPrecondition(id)
     IN IF check = "ok"
        THEN /\ uploads < MaxUploads
             /\ uploads' = uploads + 1
             /\ pc' = [pc EXCEPT ![p] = "chain"]
             /\ minting' = [minting EXCEPT ![p] = TRUE]
             /\ snap' = [snap EXCEPT ![p] = [id |-> id,
                                             clarityPoints |-> Find(entries, id).clarityPoints,
                                             metadataUri |-> uploads + 1]]
             /\ ret' = NoRet
        ELSE /\ ret' = Ret("mintEntryAsNFT", id, check, 0)
             /\ UNCHANGED <<uploads, pc, minting, snap>>
  /\ UNCHANGED <<pgEnabled, pendingSync, today, nextId, storeVars, entries, user, walletVars, chain, sweep>>

\* performMint's finally block
setMintingFalse(p) == [minting EXCEPT ![p] = FALSE]

\* The chain answers.  ok = FALSE: createSimpleNFT threw, mintEntryAsNFT records
\* the error and rethrows.  ok = TRUE: a new mint address exists; the entry is
\* updated through updateEntry and the address is returned.
mintEntryAsNFT_resume(p, ok, pgOk, sqOk) ==
  /\ pc[p] = "chain"
  /\ LET id == snap[p].id
         nftAddress == Len(chain) + 1
         updates == [NoEntryUpdates EXCEPT
                       !.isMinted = Key(TRUE),
                       !.nftAddress = Key(Some(nftAddress)),
                       !.nftTransactionSignature = Key(Some(nftAddress)),
                       !.nftMetadataUri = Key(Some(snap[p].metadataUri)),
                       !.clarityPoints = Key(snap[p].clarityPoints + NFT_MINTING)]
     IN IF ok
        THEN /\ Len(chain) < MaxTokens
             /\ chain' = Append(chain, id)
             /\ updateEntryBody(id, updates, pgOk, sqOk)
             /\ ret' = Ret("mintEntryAsNFT", id, "Minted", nftAddress)
        ELSE /\ ret' = Ret("mintEntryAsNFT", id, "MintFailed", 0)
             /\ UNCHANGED <<chain, pg, sqlite, entries>>
  /\ pc' = [pc EXCEPT ![p] = "idle"]
  /\ minting' = setMintingFalse(p)
  /\ snap' = [snap EXCEPT ![p] = NoSnap]
  /\ UNCHANGED <<pgEnabled, pendingSync, today, nextId, pgUsers, sqliteUsers, user, walletVars, uploads, sweep>>

\* ------------------------------------------------------------------- Next
\* The outcome of a PostgreSQL call that is never made (the store is disabled)
\* is immaterial: one value stands for it.
PgOutcomes == IF pgEnabled THEN BOOLEAN ELSE {TRUE}

Next ==
  \/ Tick
  \/ \E c \in CreateContents, m \in CreateMoods, a \in PgOutcomes, b \in BOOLEAN,
        c2 \in PgOutcomes, d \in BOOLEAN : createEntry(c, m, a, b, c2, d)
  \/ \E id \in AllIds, c \in EditContents, m \in EditMoods, a \in PgOutcomes, b \in BOOLEAN :
        updateEntry(id, c, m, a, b)
  \/ \E id \in AllIds, a \in PgOutcomes, b \in BOOLEAN : deleteEntry(id, a, b)
  \/ \E a \in PgOutcomes, b \in BOOLEAN, c \in PgOutcomes, d \in BOOLEAN : refreshData(a, b, c, d)
  \/ \E pgOks \in SUBSET SeqIds(entries) : \E sqOks \in SUBSET pgOks : syncToCloud(pgOks, sqOks)
  \/ \E ok \in BOOLEAN, a \in PgOutcomes, b \in BOOLEAN, c \in PgOutcomes, d \in BOOLEAN :
        connectWallet(ok, a, b, c, d)
  \/ \E a \in PgOutcomes, b \in BOOLEAN : disconnectWallet(a, b)
  \/ \E p \in Procs, id \in AllIds : mintEntryAsNFT_call(p, id)
  \/ \E p \in Procs, ok \in BOOLEAN, a \in PgOutcomes, b \in BOOLEAN : mintEntryAsNFT_resume(p, ok, a, b)
  \/ \E p \in Sweepers : syncToCloud_start(p)
  \/ \E p \in Sweepers, a, b \in BOOLEAN : syncToCloud_step(p, a, b)
  \/ \E a \in PgOutcomes, b \in PgOutcomes, c \in PgOutcomes, d \in BOOLEAN,
        e \in PgOutcomes, f \in BOOLEAN, landed \in SUBSET Procs :
        initializeApp(a, b, c, d, e, f, landed)
  \/ checkOnlineStatus

Spec == Init /\ [][Next]_vars

\* The operations on entries and the mint flow, within one calendar day, with
\* the writes of the user row returning (the sweeps of syncToCloud are in
\* SyncSpec and SweepSpec): every step is a step of Next.
EntryNext ==
  \/ \E c \in CreateContents, m \in CreateMoods, a \in PgOutcomes, b \in BOOLEAN :
        createEntry(c, m, a, b, TRUE, TRUE)
  \/ \E id \in Ids, c \in EditContents, m \in EditMoods, a \in PgOutcomes, b \in BOOLEAN :
        updateEntry(id, c, m, a, b)
  \/ \E id \in Ids, a \in PgOutcomes, b \in BOOLEAN : deleteEntry(id, a, b)
  \/ \E a \in PgOutcomes, b \in BOOLEAN : refreshData(a, b, TRUE, TRUE)
  \/ \E ok \in BOOLEAN : connectWallet(ok, TRUE, TRUE, TRUE, TRUE)
  \/ disconnectWallet(TRUE, TRUE)
  \/ \E p \in Procs, id \in Ids : mintEntryAsNFT_call(p, id)
  \/ \E p \in Procs, ok \in BOOLEAN, a \in PgOutcomes, b \in BOOLEAN : mintEntryAsNFT_resume(p, ok, a, b)

EntrySpec == Init /\ [][EntryNext]_vars

\* The chain client answers every submitted token creation.
EntryFairSpec ==
  EntrySpec /\ \A p \in Procs : WF_vars(\E ok, a, b \in BOOLEAN : mintEntryAsNFT_resume(p, ok, a, b))

\* The launches and the reads: entries are created and read back, the wallet
\* connects and disconnects, the application is relaunched; store calls fail,
\* except the writes of the user row.  Every step is a step of Next.
LaunchNext ==
  \/ \E c \in CreateContents, m \in CreateMoods, a \in PgOutcomes, b \in BOOLEAN :
        createEntry(c, m, a, b, TRUE, TRUE)
  \/ \E a \in PgOutcomes, b \in BOOLEAN : refreshData(a, b, TRUE, TRUE)
  \/ \E ok \in BOOLEAN : connectWallet(ok, TRUE, TRUE, TRUE, TRUE)
  \/ disconnectWallet(TRUE, TRUE)
  \/ \E a \in PgOutcomes, b \in PgOutcomes, c \in PgOutcomes, d \in BOOLEAN :
        initializeApp(a, b, c, d, TRUE, TRUE, {})

LaunchSpec == Init /\ [][LaunchNext]_vars

\* Reconciliation: entries are created, edited and read back, and sweeps run
\* one after the other; store calls fail, except the writes of the user's
\* stats.  Every step is a step of Next.
SyncNext ==
  \/ \E c \in CreateContents, m \in CreateMoods, a \in PgOutcomes, b \in BOOLEAN :
        createEntry(c, m, a, b, TRUE, TRUE)
  \/ \E id \in AllIds, c \in EditContents, m \in EditMoods, a \in PgOutcomes, b \in BOOLEAN :
        updateEntry(id, c, m, a, b)
  \/ \E a \in PgOutcomes, b \in BOOLEAN : refreshData(a, b, TRUE, TRUE)
  \/ \E pgOks \in SUBSET SeqIds(entries) : \E sqOks \in SUBSET pgOks : syncToCloud(pgOks, sqOks)

SyncSpec == Init /\ [][SyncNext]_vars

\* Sweeps that overlap: every component may call syncToCloud at any time, and
\* the calls advance entry by entry.  Every step is a step of Next.
SweepNext ==
  \/ \E c \in CreateContents, m \in CreateMoods, a \in PgOutcomes, b \in BOOLEAN :
        createEntry(c, m, a, b, TRUE, TRUE)
  \/ \E a \in PgOutcomes, b \in BOOLEAN : refreshData(a, b, TRUE, TRUE)
  \/ \E p \in Sweepers : syncToCloud_start(p)
  \/ \E p \in Sweepers, a, b \in BOOLEAN : syncToCloud_step(p, a, b)

SweepSpec == Init /\ [][SweepNext]_vars

\* The user's stats over the days: entries are created, deleted and read
\* back, the application is relaunched and the clock advances; every store
\* call may fail.  Every step is a step of Next.
StatsNext ==
  \/ Tick
  \/ \E c \in CreateContents, m \in CreateMoods, a \in PgOutcomes, b \in BOOLEAN,
        c2 \in PgOutcomes, d \in BOOLEAN : createEntry(c, m, a, b, c2, d)
  \/ \E id \in Ids, a \in PgOutcomes, b \in BOOLEAN : deleteEntry(id, a, b)
  \/ \E a \in PgOutcomes, b \in BOOLEAN, c \in PgOutcomes, d \in BOOLEAN : refreshData(a, b, c, d)
  \/ \E a \in PgOutcomes, b \in PgOutcomes, c \in PgOutcomes, d \in BOOLEAN,
        e \in PgOutcomes, f \in BOOLEAN : initializeApp(a, b, c, d, e, f, {})

StatsSpec == Init /\ [][StatsNext]_vars

\* The history of an entry's points: entries are created, edited, deleted,
\* read back and minted by one screen while the clock advances and the user's
\* streak changes; store calls fail, except the writes of the user row.  Every
\* step is a step of Next.
HistoryNext ==
  \/ Tick
  \/ \E c \in CreateContents, m \in CreateMoods, a \in PgOutcomes, b \in BOOLEAN :
        createEntry(c, m, a, b, TRUE, TRUE)
  \/ \E id \in Ids, c \in EditContents, m \in EditMoods, a \in PgOutcomes, b \in BOOLEAN :
        updateEntry(id, c, m, a, b)
  \/ \E id \in Ids, a \in PgOutcomes, b \in BOOLEAN : deleteEntry(id, a, b)
  \/ \E a \in PgOutcomes, b \in BOOLEAN : refreshData(a, b, TRUE, TRUE)
  \/ connectWallet(TRUE, TRUE, TRUE, TRUE, TRUE)
  \/ \E id \in Ids : mintEntryAsNFT_call(1, id)
  \/ \E ok \in BOOLEAN, a \in PgOutcomes, b \in BOOLEAN : mintEntryAsNFT_resume(1, ok, a, b)

HistorySpec == Init /\ [][HistoryNext]_vars

\* What callers may pass to createEntry and updateEntry.  A content is given
\* by its lengths: `text` characters from the first to the last one that is
\* not white space, `padding` white space characters around them.
Content(padding, text) == [padding |-> padding, text |-> text]
length(content) == content.padding + content.text
trim(content) == Content(0, content.text)
InputContents ==
  {Content(0, MIN_CONTENT_LENGTH - 1), Content(1, MIN_CONTENT_LENGTH),
   Content(0, MAX_CONTENT_LENGTH), Content(0, MAX_CONTENT_LENGTH + 1)}
InputMoods == {"grateful", "bored"}

\* Entries are created and edited with any such content and mood; store calls
\* fail, except the writes of the user row.  Every step is a step of Next
\* with these inputs.
InputNext ==
  \/ \E c \in InputContents, m \in InputMoods, a \in PgOutcomes, b \in BOOLEAN :
        createEntry(c, m, a, b, TRUE, TRUE)
  \/ \E id \in Ids, c \in InputContents, m \in InputMoods, a \in PgOutcomes, b \in BOOLEAN :
        updateEntry(id, c, m, a, b)

InputSpec == Init /\ [][InputNext]_vars

\* The sync status: entries are created, edited, read back and swept, the
\* status is recomputed and the application is relaunched; store calls fail,
\* except the writes of the user row.  Every step is a step of Next.
StatusNext ==
  \/ \E c \in CreateContents, m \in CreateMoods, a \in PgOutcomes, b \in BOOLEAN :
        createEntry(c, m, a, b, TRUE, TRUE)
  \/ \E id \in AllIds, c \in EditContents, m \in EditMoods, a \in PgOutcomes, b \in BOOLEAN :
        updateEntry(id, c, m, a, b)
  \/ \E a \in PgOutcomes, b \in BOOLEAN : refreshData(a, b, TRUE, TRUE)
  \/ \E pgOks \in SUBSET SeqIds(entries) : \E sqOks \in SUBSET pgOks : syncToCloud(pgOks, sqOks)
  \/ checkOnlineStatus
  \/ \E a \in PgOutcomes, c \in PgOutcomes, d \in BOOLEAN : initializeApp(a, TRUE, c, d, TRUE, TRUE, {})

StatusSpec == Init /\ [][StatusNext]_vars

\* ----------------------------------------------- LedgerEngine on its own
\* Everything but the inputs of the function under study.
LedgerBase ==
  /\ pgEnabled = FALSE
  /\ nextId = 1
  /\ sqlite = {}
  /\ pg = {}
  /\ pgUsers = {}
  /\ sqliteUsers = {NewUserRow}
  /\ walletSvc = FALSE
  /\ walletConnected = FALSE
  /\ chain = <<>>
  /\ uploads = 0
  /\ pc = [p \in Procs |-> "idle"]
  /\ minting = [p \in Procs |-> FALSE]
  /\ snap = [p \in Procs |-> NoSnap]
  /\ ret = NoRet
  /\ sweep = [p \in Sweepers |-> <<>>]
  /\ pendingSync = 0

\* an entry written on calendar day `day`
EntryOn(id, day) ==
  [id |-> id, userId |-> USER_ID, content |-> "c1", mood |-> "happy", createdAt |-> day,
   isMinted |-> FALSE, nftAddress |-> None, clarityPoints |-> DAILY_ENTRY + MOOD_TRACKING,
   isSync |-> FALSE, nftTransactionSignature |-> None, nftMetadataUri |-> None]

\* the lists of at most MaxLen entries written on days 0..now, in any order
StreakInputs(now) ==
  UNION {{[i \in 1..n |-> EntryOn(i, f[i])] : f \in [1..n -> 0..now]} : n \in 0..MaxLen}

StreakInit ==
  /\ LedgerBase
  /\ today \in 0..MaxSpan
  /\ entries \in StreakInputs(today)
  /\ user = DatabaseService_dbUserToUser(NewUserRow)

\* calculateStreak(entries, user) is called: it returns the streak, and its
\* entries.sort has sorted the caller's array in place.
calculateStreak_call ==
  /\ ret' = Ret("calculateStreak", 0, "ok", calculateStreak(entries, today))
  /\ entries' = SortByDateDesc(entries)
  /\ UNCHANGED <<pgEnabled, pendingSync, today, nextId, storeVars, user, walletVars, mintVars, sweep>>

\* the caller's list loses an entry with the latest creation day
dropLatest(i) ==
  /\ i \in 1..Len(entries)
  /\ \A j \in 1..Len(entries) : entries[j].createdAt <= entries[i].createdAt
  /\ entries' = [j \in 1..(Len(entries) - 1) |-> IF j < i THEN entries[j] ELSE entries[j + 1]]
  /\ UNCHANGED <<pgEnabled, pendingSync, today, nextId, storeVars, user, walletVars, mintVars, ret, sweep>>

\* the caller's list in another order: two neighbours change places
reorder(i) ==
  /\ i \in 1..(Len(entries) - 1)
  /\ entries' = [entries EXCEPT ![i] = entries[i + 1], ![i + 1] = entries[i]]
  /\ UNCHANGED <<pgEnabled, pendingSync, today, nextId, storeVars, user, walletVars, mintVars, ret, sweep>>

StreakNext ==
  \/ calculateStreak_call
  \/ \E i \in 1..MaxLen : dropLatest(i)
  \/ \E i \in 1..MaxLen : reorder(i)

StreakSpec == StreakInit /\ [][StreakNext]_vars

PointsInit ==
  /\ LedgerBase
  /\ today = 0
  /\ entries = <<>>
  /\ \E streak \in 0..MaxStreak :
       user = [DatabaseService_dbUserToUser(NewUserRow) EXCEPT !.currentStreak = streak]

\* calculateClarityPoints(entry, state.user.currentStreak, isMoodTracked) is
\* called for an entry with that isMinted; the caller keeps the total.
calculateClarityPoints_call(isMinted, isMoodTracked) ==
  /\ ret' = Ret("calculateClarityPoints", 0, "ok",
                calculateClarityPoints(isMinted, user.currentStreak, isMoodTracked).total)
  /\ UNCHANGED <<pgEnabled, pendingSync, today, nextId, storeVars, entries, user, walletVars, mintVars, sweep>>

PointsNext == \E isMinted, isMoodTracked \in BOOLEAN : calculateClarityPoints_call(isMinted, isMoodTracked)

PointsSpec == PointsInit /\ [][PointsNext]_vars

\* ------------------------------------------------------------- properties
InFlight(p) == pc[p] = "chain"
MemIds == SeqIds(entries)
RowIds(rows) == {r.id : r \in rows}
Row(rows, id) == CHOOSE r \in rows : r.id = id
MintErrors == {"WalletNotConnected", "EntryNotFound", "AlreadyMinted"}
OnlyRetChanges ==
  UNCHANGED <<pgEnabled, pendingSync, today, nextId, sqlite, pg, sqliteUsers, pgUsers, entries, user,
              walletSvc, walletConnected, chain, uploads, pc, minting, snap, sweep,
              pendingSync>>
\* p's call of mintEntryAsNFT passes its checks in this step
Starts(p) == pc[p] = "idle" /\ pc'[p] = "chain"
\* this step is a call of mintEntryAsNFT rejected with one of `results` (the
\* same rejection reported twice in a row changes nothing at all)
Rejects(results) == ret' # ret /\ ret'.op = "mintEntryAsNFT" /\ ret'.result \in results

\* C1: while a mint of an entry is in flight, a second call for the same entry
\* is rejected before any upload or chain call: no two attempts for one entry
\* are ever in flight together.
C1_SecondConcurrentCallRejected ==
  \A p, q \in Procs : (p # q /\ InFlight(p) /\ InFlight(q)) => snap[p].id # snap[q].id

\* C2: an entry's clarityPoints changes, in memory and in either store, only
\* by a step that takes the entry from unminted to minted and adds NFT_MINTING;
\* a call is accepted only for an entry that is unminted, and a call rejected
\* with AlreadyMinted is for a minted entry and changes nothing.
C2_MemPoints(id) ==
  (id \in MemIds /\ id \in SeqIds(entries')
     /\ Find(entries', id).clarityPoints # Find(entries, id).clarityPoints)
  => /\ ~Find(entries, id).isMinted
     /\ Find(entries', id).isMinted
     /\ Find(entries', id).clarityPoints = Find(entries, id).clarityPoints + NFT_MINTING
C2_SqlitePoints(id) ==
  (id \in RowIds(sqlite) /\ id \in RowIds(sqlite')
     /\ Row(sqlite', id).clarity_points # Row(sqlite, id).clarity_points)
  => /\ Row(sqlite, id).is_minted = 0
     /\ Row(sqlite', id).is_minted = 1
     /\ Row(sqlite', id).clarity_points = Row(sqlite, id).clarity_points + NFT_MINTING
C2_PgPoints(id) ==
  (id \in RowIds(pg) /\ id \in RowIds(pg')
     /\ Row(pg', id).clarity_points # Row(pg, id).clarity_points)
  => /\ ~Row(pg, id).is_minted
     /\ Row(pg', id).is_minted
     /\ Row(pg', id).clarity_points = Row(pg, id).clarity_points + NFT_MINTING
C2_Rejected ==
  Rejects({"AlreadyMinted"})
  => ret'.id \in MemIds /\ Find(entries, ret'.id).isMinted /\ OnlyRetChanges
C2_Accepted ==
  \A p \in Procs : Starts(p) => snap'[p].id \in MemIds /\ ~Find(entries, snap'[p].id).isMinted
C3_PersistFailureReported ==
  [][\A p \in Procs :
       (InFlight(p) /\ snap[p].id \in RowIds(sqlite) /\ mintEntryAsNFT_resume(p, TRUE, TRUE, FALSE))
       => ret'.result = "MintFailed"]_vars

\* C4: every minted entry of the list in memory, hence every minted entry a
\* reload returns, carries its transaction signature and metadata URI.
C4_MintedEntryCarriesNftFields ==
  \A i \in 1..Len(entries) :
    entries[i].isMinted => /\ entries[i].nftTransactionSignature # None
                           /\ entries[i].nftMetadataUri # None

\* C5: a call of mintEntryAsNFT rejected for a missing wallet, a missing entry
\* or a minted entry reports the error of the precondition that fails and
\* changes nothing; an attempt starts (an upload is made, the chain is called)
\* only with a connected wallet, for an entry that exists and is unminted; and
\* a token is created only for an attempt that started.
C5_Rejected ==
  Rejects(MintErrors)
  => /\ OnlyRetChanges
     /\ (ret'.result = "WalletNotConnected") => ~walletSvc
     /\ (ret'.result = "EntryNotFound") => (walletSvc /\ ret'.id \notin MemIds)
     /\ (ret'.result = "AlreadyMinted") =>
          (walletSvc /\ ret'.id \in MemIds /\ Find(entries, ret'.id).isMinted)
C5_Started ==
  (uploads' # uploads \/ \E p \in Procs : Starts(p))
  => /\ walletSvc
     /\ uploads' = uploads + 1
     /\ \E p \in Procs : /\ Starts(p)
                         /\ snap'[p].id \in MemIds
                         /\ ~Find(entries, snap'[p].id).isMinted
C5_ChainCalled ==
  (chain' # chain) => \E p \in Procs : InFlight(p) /\ chain' = Append(chain, snap[p].id)
C5_PreconditionErrors == [][C5_Rejected /\ C5_Started /\ C5_ChainCalled]_vars
\* a call for an id that is not in the list, made with a wallet connected and
\* another entry present, was rejected with EntryNotFound
C5_Witness ==
  /\ ret.op = "mintEntryAsNFT" /\ ret.result = "EntryNotFound"
  /\ walletSvc
  /\ entries # <<>>
  /\ uploads = 0

C7_Sqlite(id) ==
  (id \in RowIds(sqlite) /\ Row(sqlite, id).is_minted = 1 /\ id \in RowIds(sqlite'))
  => Row(sqlite', id).is_minted = 1 /\ Row(sqlite', id).nft_address # None
C7_Pg(id) ==
  (id \in RowIds(pg) /\ Row(pg, id).is_minted /\ id \in RowIds(pg'))
  => Row(pg', id).is_minted /\ Row(pg', id).nft_address # None
C7_Mem(id) ==
  (id \in MemIds /\ Find(entries, id).isMinted /\ id \in SeqIds(entries'))
  => Find(entries', id).isMinted /\ Find(entries', id).nftAddress # None
C8_FailedAttemptLeavesUnminted ==
  (ret.op = "mintEntryAsNFT" /\ ret.result = "MintFailed" /\ ret.id \in MemIds)
  => ~Find(entries, ret.id).isMinted

\* C9: an updateEntry whose PostgreSQL call throws, for an entry that SQLite
\* holds and with SQLite answering, still writes the SQLite row.
C9_MirrorFailureKeepsLocalWrite ==
  [][\A id \in Ids, c \in EditContents, m \in EditMoods :
       (pgEnabled /\ id \in RowIds(sqlite) /\ updateEntry(id, c, m, FALSE, TRUE))
       => Row(sqlite', id).content = c]_vars

\* C10: an updateEntry whose SQLite write throws does not report success.
C10_LocalFailureReported ==
  [][\A id \in Ids, c \in EditContents, m \in EditMoods :
       (id \in RowIds(sqlite) /\ updateEntry(id, c, m, TRUE, FALSE))
       => ret'.result # "ok"]_vars

\* ------------------------------------------------------------------ reads
\* u is the user `answer`, whatever its recomputed stats
SameUser(u, answer) == u.id = answer.id /\ u.walletAddress = answer.walletAddress
PgEntriesAnswer == PostgreSQLService_getJournalEntries(RowsOf(pg, user.id))
SqliteEntriesAnswer == DatabaseService_getJournalEntries(RowsOf(sqlite, user.id))
PgUserAnswer == PostgreSQLService_getUser(pgUsers, user.id)
SqliteUserAnswer == DatabaseService_getUser(sqliteUsers, user.id)
KnownUserIds == {r.id : r \in sqliteUsers \cup pgUsers}

\* the entries a refresh loads: PostgreSQL's answer when it is enabled and its
\* read returns, SQLite's answer otherwise, no error reported
C11_RefreshRead ==
  \A a \in PgOutcomes, b \in BOOLEAN :
    (refreshData(a, b, TRUE, TRUE) /\ ((pgEnabled /\ a) \/ b))
    => /\ entries' = IF pgEnabled /\ a THEN PgEntriesAnswer ELSE SqliteEntriesAnswer
       /\ ret' = NoRet
\* the same for the entries a launch loads, for the user it has read
C11_LaunchEntriesRead(c, d) ==
  ((pgEnabled /\ c) \/ d)
  => entries' = IF pgEnabled /\ c
                THEN PostgreSQLService_getJournalEntries(RowsOf(pg, user'.id))
                ELSE DatabaseService_getJournalEntries(RowsOf(sqlite, user'.id))

\* C11 as stated: the read of a user or of the user's entries returns
\* PostgreSQL's answer when PostgreSQL is enabled and its read returns --- for
\* the user also when that answer is "no such user", so that the launch does
\* not go on with a user read from SQLite --- and SQLite's answer otherwise.
C11_ReadReturnsMirrorAnswer ==
  [][/\ C11_RefreshRead
     /\ \A a, x, c \in PgOutcomes, d \in BOOLEAN :
          initializeApp(a, x, c, d, TRUE, TRUE, {})
          => /\ C11_LaunchEntriesRead(c, d)
             /\ IF pgEnabled /\ a
                THEN IF PgUserAnswer # None THEN SameUser(user', PgUserAnswer[1])
                     ELSE user'.id \notin KnownUserIds
                ELSE IF SqliteUserAnswer # None THEN SameUser(user', SqliteUserAnswer[1])
                     ELSE user'.id \notin KnownUserIds]_vars

\* C11: the read of the user's entries returns PostgreSQL's answer when
\* PostgreSQL is enabled and its read returns, and SQLite's answer when it is
\* disabled or its read throws; the read of the user returns PostgreSQL's
\* answer when PostgreSQL is enabled, its read returns and it has that user,
\* and SQLite's answer when it is disabled, its read throws or it has no such
\* user (a new user is created when SQLite has none either); a throwing
\* PostgreSQL read is never reported to the caller.
C11_ReadPrefersMirror ==
  [][/\ C11_RefreshRead
     /\ \A a, x, c \in PgOutcomes, d \in BOOLEAN :
          initializeApp(a, x, c, d, TRUE, TRUE, {})
          => /\ C11_LaunchEntriesRead(c, d)
             /\ IF pgEnabled /\ a /\ PgUserAnswer # None
                THEN SameUser(user', PgUserAnswer[1])
                ELSE IF SqliteUserAnswer # None THEN SameUser(user', SqliteUserAnswer[1])
                     ELSE user'.id \notin KnownUserIds
             /\ ret' = NoRet]_vars
\* the entries in memory are SQLite's answer while PostgreSQL holds other ones:
\* a read fell back
C11_Witness ==
  /\ pgEnabled /\ RowsOf(pg, user.id) # {} /\ RowsOf(sqlite, user.id) # {}
  /\ entries = SqliteEntriesAnswer

\* --------------------------------------------------------- reconciliation
\* the user's entries that are not flagged as synced: in SQLite, in memory
UnsyncedRows == {r \in RowsOf(sqlite, user.id) : r.is_sync = 0}
UnsyncedMem == {entries[i].id : i \in {j \in 1..Len(entries) : ~entries[j].isSync}}
\* the PostgreSQL rows that carry the content of entry e of state.entries
CopiesOf(rows, e) ==
  {r \in rows : r.user_id = e.userId /\ r.content = e.content /\ r.mood = e.mood /\ r.is_sync}

\* C12: a sweep submits every entry that is not flagged as synced; an entry
\* whose PostgreSQL write returns is flagged in SQLite afterwards, one whose
\* write throws keeps its flag, whatever happened to the entries before it;
\* with every write returning no unflagged row is left in SQLite; with every
\* write throwing no flag changes; the call resolves.
C12_SweepFlagsWhatItWrote ==
  [][\A pgOks \in SUBSET MemIds : \A sqOks \in SUBSET pgOks :
       (pgEnabled /\ syncToCloud(pgOks, sqOks))
       => /\ \A id \in UnsyncedMem \cup RowIds(UnsyncedRows) :
               IF id \in pgOks
               THEN id \in RowIds(sqlite') /\ Row(sqlite', id).is_sync = 1
               ELSE id \in RowIds(sqlite) => Row(sqlite', id).is_sync = Row(sqlite, id).is_sync
          /\ pgOks = MemIds => \A r \in UnsyncedRows : Row(sqlite', r.id).is_sync = 1
          /\ pgOks = {} => sqlite' = sqlite /\ pg' = pg
          /\ ret' = NoRet]_vars

\* what one more sweep, with every store call returning, would leave behind
SweepAgain(es, pgRows, sqRows, id) ==
  SyncLoop(es, [pg |-> pgRows, sqlite |-> sqRows, nextId |-> id], SeqIds(es), SeqIds(es), 1, today)

\* C13: sweeps that do not overlap are idempotent: in the state a sweep with
\* every store call returning leaves behind, a further sweep writes nothing
\* to PostgreSQL and nothing to SQLite.
C13_SecondSweepChangesNothing ==
  [][(pgEnabled /\ syncToCloud(MemIds, MemIds))
     => LET again == SweepAgain(entries', pg', sqlite', nextId')
        IN again.pg = pg' /\ again.sqlite = sqlite']_vars

Sweeping == {p \in Sweepers : sweep[p] # <<>>}

\* C14: at most one sweep is in progress at any time: a sweep requested while
\* another one is running does not start before that one has finished.
C14_OneSweepAtATime == Cardinality(Sweeping) <= 1

\* C15: an edit that changes the content or the mood of an entry flagged as
\* synced leaves it unflagged in memory and in SQLite; a SQLite row goes from
\* unflagged to flagged only in a step that writes a copy of it to PostgreSQL.
C15_EditMarksUnsynced ==
  [][/\ \A id \in AllIds, c \in EditContents, m \in EditMoods, a \in PgOutcomes, b \in BOOLEAN :
          (/\ updateEntry(id, c, m, a, b)
           /\ Find(entries, id).isSync
           /\ \/ Find(entries', id).content # Find(entries, id).content
              \/ Find(entries', id).mood # Find(entries, id).mood)
          => /\ ~Find(entries', id).isSync
             /\ id \in RowIds(sqlite') => Row(sqlite', id).is_sync = 0
     /\ \A id \in RowIds(sqlite) \cap RowIds(sqlite') :
          (Row(sqlite, id).is_sync = 0 /\ Row(sqlite', id).is_sync = 1)
          => \E r \in pg' \ pg : r.is_sync /\ r.content = Row(sqlite, id).content]_vars

\* ----------------------------------------------------------- LedgerEngine
\* the calendar days that have at least one entry
Days(es) == {es[i].createdAt : i \in 1..Len(es)}
\* the number of consecutive days with an entry, counted back from day d
RECURSIVE RunFrom(_, _)
RunFrom(days, d) == IF d \in days THEN 1 + RunFrom(days, d - 1) ELSE 0

\* C16: when the most recent entry was written yesterday and today has no
\* entry, calculateStreak returns the number of consecutive days with an
\* entry counted back from yesterday (at least 1).
C16_StreakCountsFromYesterday ==
  [][(calculateStreak_call /\ today \notin Days(entries) /\ (today - 1) \in Days(entries))
     => ret'.value = RunFrom(Days(entries), today - 1)]_vars

C18_DroppingLatestNeverIncreases ==
  [][/\ (\E i \in 1..MaxLen : dropLatest(i))
        => calculateStreak(entries', today) <= calculateStreak(entries, today)
     /\ (calculateStreak_call /\ entries = <<>>) => ret'.value = 0]_vars
\* the streak was 2; with today's entry removed it is 0
C18_Witness ==
  /\ ret.op = "calculateStreak" /\ ret.value = 2
  /\ Len(entries) = 1 /\ calculateStreak(entries, today) = 0

\* C19: calculateStreak returns the same value for the same entries passed
\* in another order.
C19_OrderDoesNotMatter ==
  [][(\E i \in 1..MaxLen : reorder(i))
     => calculateStreak(entries', today) = calculateStreak(entries, today)]_vars
\* a list that is not in date order gives the 2 its sorted form gave
C19_Witness ==
  /\ ret.op = "calculateStreak" /\ ret.value = 2
  /\ entries # SortByDateDesc(entries) /\ calculateStreak(entries, today) = 2

\* C20: for every streak and every isMinted and isMoodTracked the breakdown is
\* dailyEntry 10, moodTracking 5 or 0, nftMinting 20 or 0, streakBonus 200
\* from 30 days, 50 from 7, 15 from 3 and 0 below, and total their sum.
C20_Breakdown ==
  [][\A isMinted, isMoodTracked \in BOOLEAN :
       calculateClarityPoints_call(isMinted, isMoodTracked)
       => LET streak == user.currentStreak
              b == calculateClarityPoints(isMinted, streak, isMoodTracked)
          IN /\ b.dailyEntry = 10
             /\ b.moodTracking = (IF isMoodTracked THEN 5 ELSE 0)
             /\ b.nftMinting = (IF isMinted THEN 20 ELSE 0)
             /\ b.streakBonus = (IF streak >= 30 THEN 200
                                 ELSE IF streak >= 7 THEN 50
                                 ELSE IF streak >= 3 THEN 15 ELSE 0)
             /\ b.total = b.dailyEntry + b.moodTracking + b.nftMinting + b.streakBonus
             /\ ret'.value = b.total]_vars
\* streak 3, mood tracked, not minted: 30
C20_Witness ==
  /\ ret.op = "calculateClarityPoints" /\ user.currentStreak = 3 /\ ret.value = 30
  /\ calculateClarityPoints(FALSE, 3, TRUE) =
       [dailyEntry |-> 10, moodTracking |-> 5, nftMinting |-> 0, streakBonus |-> 15, total |-> 30]

\* ------------------------------------------------------------ user stats
UserRows == sqliteUsers \cup pgUsers

\* C21: in every reachable state the user in memory and every persisted user
\* row have longestStreak >= currentStreak, whatever creations, deletions,
\* refreshes and relaunches came before and whichever store calls failed.
C21_LongestAtLeastCurrent ==
  /\ user.longestStreak >= user.currentStreak
  /\ \A r \in UserRows : r.longest_streak >= r.current_streak
\* a streak of 2 has been reached and lost: memory and a persisted row keep 2
\* as the longest streak next to a shorter current one
C21_Witness ==
  /\ user.longestStreak = 2 /\ user.currentStreak < 2
  /\ \E r \in UserRows : r.id = user.id /\ r.longest_streak = 2 /\ r.current_streak < 2

\* C22: after every step of createEntry, deleteEntry, refreshData or
\* initializeApp that changes the list of entries, the user's cached
\* currentStreak is what calculateStreak returns for the new list.
C22_StreakMatchesEntries ==
  [][(entries' # entries) => user'.currentStreak = calculateStreak(entries', today')]_vars

\* ------------------------------------------------------- points as a ledger
\* this step is the successful end of a mint of entry id
MintLands(id) == \E p \in Procs : InFlight(p) /\ snap[p].id = id /\ chain' = Append(chain, id)
\* this step reads the entries back: no store changes, and entry id has in
\* memory the points one of the stores holds for it
ReadsBack(id) ==
  /\ pg' = pg /\ sqlite' = sqlite
  /\ \E r \in pg \cup sqlite : r.id = id /\ r.clarity_points = Find(entries', id).clarityPoints

C23_StoredPoints(rows, rowsAfter, id) ==
  (id \in RowIds(rows) /\ id \in RowIds(rowsAfter)
     /\ Row(rowsAfter, id).clarity_points # Row(rows, id).clarity_points)
  => MintLands(id)
C23_MemPoints(id) ==
  (id \in MemIds /\ id \in SeqIds(entries')
     /\ Find(entries', id).clarityPoints # Find(entries, id).clarityPoints)
  => MintLands(id) \/ ReadsBack(id)

\* C23: the clarityPoints stored for an existing entry, in SQLite and in
\* PostgreSQL, changes only in the step in which a mint of that entry succeeds;
\* in memory it changes only in that step, or when a read brings back the
\* stored value.  Creations, edits, deletions of other entries, the
\* recomputation of the user's stats, refreshes, the passing of days and the
\* changes of the user's streak leave it as it is.
C23_PointsAreALedgerEntry ==
  [][\A id \in Ids : /\ C23_StoredPoints(sqlite, sqlite', id)
                      /\ C23_StoredPoints(pg, pg', id)
                      /\ C23_MemPoints(id)]_vars
\* an entry written on day 0 at streak 0 keeps its 15 points on day 1, next to
\* a minted entry of day 1, when the user's streak is 2
C23_Witness ==
  /\ today = 1 /\ user.currentStreak = 2 /\ Len(entries) = 2
  /\ \E i, j \in 1..Len(entries) :
       /\ entries[i].createdAt = 0 /\ entries[i].clarityPoints = DAILY_ENTRY + MOOD_TRACKING
       /\ entries[j].createdAt = 1 /\ entries[j].isMinted
       /\ entries[j].clarityPoints = DAILY_ENTRY + MOOD_TRACKING + NFT_MINTING

\* -------------------------------------------------------------- validation
ValidInput(content, mood) ==
  /\ length(trim(content)) >= MIN_CONTENT_LENGTH
  /\ length(trim(content)) <= MAX_CONTENT_LENGTH
  /\ mood \in MoodType

\* C24: a createEntry or an updateEntry whose content has a trimmed length
\* below 10 or above 5000, or whose mood is none of the 8 moods, reports a
\* validation error and changes neither store nor the entries in memory; a
\* createEntry with valid content and mood, and a store that answers, succeeds.
C24_InvalidInputRejected ==
  [][/\ \A c \in InputContents, m \in InputMoods, a \in PgOutcomes, b \in BOOLEAN :
          createEntry(c, m, a, b, TRUE, TRUE)
          => IF ValidInput(c, m)
             THEN ((pgEnabled /\ a) \/ b) => ret'.result = "ok"
             ELSE ret'.result = "ValidationError" /\ UNCHANGED <<sqlite, pg, entries>>
     /\ \A id \in Ids, c \in InputContents, m \in InputMoods, a \in PgOutcomes, b \in BOOLEAN :
          (updateEntry(id, c, m, a, b) /\ ~ValidInput(c, m))
          => ret'.result = "ValidationError" /\ UNCHANGED <<sqlite, pg, entries>>]_vars

\* -------------------------------------------------------------- round trip
\* what EntryStore returns for the entry with that id
ReadBack(rows, id) == DatabaseService_dbEntryToEntry(Row(rows, id))
\* a and b are equal field for field, the store-assigned timestamp apart
SameEntry(a, b) == [a EXCEPT !.createdAt = 0] = [b EXCEPT !.createdAt = 0]

\* C25: what EntryStore returns for an entry is, the timestamps apart, what
\* was written: after a createEntry that wrote to SQLite the entry it returned;
\* after an edit that SQLite accepted that entry with the new content and
\* mood; after the update of a mint that SQLite accepted that entry with
\* isMinted, the mint address, the transaction signature, the metadata URI
\* and the new clarityPoints.
C25_ReadBackEqualsWritten ==
  [][/\ \A c \in CreateContents, m \in CreateMoods, a \in PgOutcomes :
          (createEntry(c, m, a, TRUE, TRUE, TRUE) /\ sqlite' # sqlite)
          => SameEntry(ReadBack(sqlite', nextId), Head(entries'))
     /\ \A id \in Ids, c \in EditContents, m \in EditMoods :
          (id \in RowIds(sqlite) /\ updateEntry(id, c, m, TRUE, TRUE))
          => SameEntry(ReadBack(sqlite', id),
                       [ReadBack(sqlite, id) EXCEPT !.content = c, !.mood = m])
     /\ \A p \in Procs :
          (InFlight(p) /\ snap[p].id \in RowIds(sqlite) /\ mintEntryAsNFT_resume(p, TRUE, TRUE, TRUE))
          => SameEntry(ReadBack(sqlite', snap[p].id),
                       [ReadBack(sqlite, snap[p].id) EXCEPT
                          !.isMinted = TRUE,
                          !.nftAddress = Some(Len(chain) + 1),
                          !.nftTransactionSignature = Some(Len(chain) + 1),
                          !.nftMetadataUri = Some(snap[p].metadataUri),
                          !.clarityPoints = snap[p].clarityPoints + NFT_MINTING])]_vars

\* ------------------------------------------------------------------ purity
\* C26: a call of calculateStreak leaves the list it was passed as it was,
\* the order of its elements included, and a call of calculateClarityPoints
\* leaves the entries and the user as they were.
C26_LedgerCallsChangeNothing ==
  [][/\ calculateStreak_call => entries' = entries
     /\ \A isMinted, isMoodTracked \in BOOLEAN :
          calculateClarityPoints_call(isMinted, isMoodTracked) => UNCHANGED <<entries, user>>]_vars

\* ---------------------------------------------------------------- identity
\* C27: a launch that finds a stored user id resolves to the user with that
\* id: it creates no user row and the stored id stays what it was, whether or
\* not the PostgreSQL calls of that launch return.
C27_LaunchKeepsStoredUser ==
  [][\A a, x, c \in PgOutcomes, d \in BOOLEAN :
       initializeApp(a, x, c, d, TRUE, TRUE, {})
       => user'.id = user.id /\ {r.id : r \in UserRows'} = KnownUserIds]_vars

\* ------------------------------------------------------------- sync status
\* C28: in every state the pendingSync of the sync status is the number of
\* the entries in memory that are not flagged as synced: after a launch, a
\* createEntry, an edit, a refresh and a sweep alike.
C28_PendingSyncCountsUnsynced == pendingSync = Cardinality(UnsyncedMem)

\* ------------------------------------------------------------ total points
\* C29: after every step that changes which entries there are or the points
\* they carry (createEntry, deleteEntry, a mint that succeeds, a refresh),
\* the user's totalClarityPoints, in memory and in the persisted row of that
\* user, is the sum of clarityPoints over the entries in memory.
C29_TotalIsSumOfEntries ==
  [][(SeqIds(entries') # SeqIds(entries) \/ SeqSum(entries') # SeqSum(entries))
     => /\ user'.totalClarityPoints = SeqSum(entries')
        /\ \A r \in UserRows' : r.id = user'.id => r.total_clarity_points = SeqSum(entries')]_vars

\* ------------------------------------------------------------------ wallet
\* C30: in every state the walletAddress of the persisted row of the user is
\* the walletAddress of the user in memory; so after a disconnectWallet
\* neither holds one, and the next launch reads none back.
C30_PersistedWalletMatchesMemory ==
  \A r \in UserRows : r.id = user.id => r.wallet_address = user.walletAddress

====
